---- MODULE Spec2Model ----
(***************************************************************************)
(* Organic Buoyancy Solver: the hydrostatic kernel (mesh integration,      *)
(* waterline clipping, the per-frame equilibrium solver) and the React     *)
(* state around it (scene geometry, derived base properties, external      *)
(* weights), as a state machine.                                           *)
(*                                                                         *)
(* Numbers.  JavaScript numbers are modelled in fixed point, one unit per  *)
(* quantity, chosen so that every multiplication by a constant of the      *)
(* solver is exact; only divisions and the trigonometry of the world       *)
(* matrix round (to the nearest unit).  The IEEE values NaN and +-Infinity *)
(* are modelled explicitly wherever the code can produce them.             *)
(*                                                                         *)
(*   length (vertices, cog, cob)      1 cell  = 0.1 m                      *)
(*   volume                           1       = 1/6000 m^3 (6 x cell^3)    *)
(*   density                          1       = 25 kg/m^3                  *)
(*   mass                             1       = 1/240 kg (volume x density)*)
(*   force (netForceZ)                1       = 1/24000 N  (mass x 0.01g)  *)
(*   heaveStep                        1       = 1/Cell m                   *)
(*   positionZ                        <<cells, fine>>, Cell fine per cell  *)
(*   pitchStep, rollStep              1       = 0.002 rad                  *)
(*   rotationX, rotationY             1       = 0.0001 rad                 *)
(*                                                                         *)
(* With these units netForceZ * 0.00005 and heaveStep * 0.1 keep their     *)
(* number (0.00005 / 24000 m = 1/Cell m; 0.1 / Cell m = one fine unit),    *)
(* and so do dy * 0.02 and pitchStep * 0.05.  World points are whole       *)
(* cells: the world matrix takes positionZ to the nearest cell, sines and  *)
(* cosines to 1/Q, and an intersection with the waterline is rounded to    *)
(* the nearest cell.  The rounding of IEEE doubles (one part in 2^53) is   *)
(* not modelled.                                                           *)
(***************************************************************************)
EXTENDS Integers, Sequences, FiniteSets, TLC

\* ------------------------------------------------------------------ units

\* fine units of positionZ in one cell: 240 (mass) * 100 (g) * 20000 (1/0.00005)
Cell == 240 * 100 * 20000
\* fixed-point scale of the world matrix entries, and angle units per radian
Q == 100 * 100
\* volume units in one cubic metre, mass units in one kilogram (density unit 25 kg/m^3)
VolPerM3 == 6 * 1000
MassPerKg == VolPerM3 \div 25

Abs(n) == IF n < 0 THEN -n ELSE n
Sign(n) == IF n < 0 THEN -1 ELSE IF n > 0 THEN 1 ELSE 0

\* a / b rounded to the nearest integer, halves away from zero (b # 0)
RoundDiv(a, b) == Sign(a) * Sign(b) * ((2 * Abs(a) + Abs(b)) \div (2 * Abs(b)))

\* Math.max(-c, Math.min(c, n)) on a number
Clamp(n, c) == IF n > c THEN c ELSE IF n < -c THEN -c ELSE n

\* ---------------------------------------------------- IEEE special values

Fin(n) == [k |-> "fin", v |-> n]
NaN == [k |-> "nan", v |-> 0]
Inf(s) == [k |-> "inf", v |-> s]
IsFin(f) == f.k = "fin"
IsNaN(f) == f.k = "nan"

\* a / b for numbers a and b
FDiv(a, b) ==
  IF b = 0 THEN (IF a = 0 THEN NaN ELSE Inf(Sign(a)))
  ELSE Fin(RoundDiv(a, b))

\* f * m for a number m
FScale(f, m) ==
  CASE f.k = "fin" -> Fin(f.v * m)
    [] f.k = "nan" -> NaN
    [] OTHER -> IF m = 0 THEN NaN ELSE Inf(f.v * Sign(m))

FAdd(f, g) ==
  CASE f.k = "nan" \/ g.k = "nan" -> NaN
    [] f.k = "fin" /\ g.k = "fin" -> Fin(f.v + g.v)
    [] f.k = "inf" /\ g.k = "inf" -> IF f.v = g.v THEN f ELSE NaN
    [] f.k = "inf" -> f
    [] OTHER -> g

FNeg(f) == IF f.k = "nan" THEN NaN ELSE [k |-> f.k, v |-> -f.v]
FSub(f, g) == FAdd(f, FNeg(g))

\* f * (1 / m): Vector3.divideScalar multiplies by the reciprocal
FDivScalar(f, m) ==
  CASE f.k = "nan" -> NaN
    [] f.k = "fin" -> FDiv(f.v, m)
    [] OTHER -> f

\* Math.max(-c, Math.min(c, f)): NaN passes both, an infinity is clamped
FClamp(f, c) ==
  CASE f.k = "nan" -> NaN
    [] f.k = "inf" -> Fin(f.v * c)
    [] OTHER -> Fin(Clamp(f.v, c))

FVec(x, y, z) == <<Fin(x), Fin(y), Fin(z)>>
VecFin(v) == IsFin(v[1]) /\ IsFin(v[2]) /\ IsFin(v[3])
NaNVec == <<NaN, NaN, NaN>>

\* --------------------------------------------------------------- meshes

\* A BufferGeometry as the Solver receives it: the position attribute and the
\* index (indexed = FALSE: no index).  The solver takes whatever geometry the
\* scene hands it; the centring and lifting done by the loaders is not modelled.
\* Hull: a closed, outward wound tetrahedron, deck 0.1 m above the local origin,
\* keel 1.4 m below it.  Sheet: a closed two-sided triangle (zero volume).
Hull ==
  [position |-> << <<0, 0, -14>>, <<-15, -10, 1>>, <<15, -10, 1>>, <<0, 20, 1>> >>,
   indexed |-> TRUE,
   index |-> <<1, 2, 3, 0, 2, 1, 0, 3, 2, 0, 1, 3>>]

Sheet ==
  [position |-> << <<0, 0, -2>>, <<10, 0, -2>>, <<0, 10, -2>>,
                   <<0, 0, -2>>, <<0, 10, -2>>, <<10, 0, -2>> >>,
   indexed |-> FALSE,
   index |-> << >>]

\* Raft: a closed, outward wound pyramid as the STL loader delivers a shallow
\* body (centred, then lifted by a quarter of its height): flat bottom 0.1 m
\* below the local origin, top 0.3 m above it.
Raft ==
  [position |-> << <<0, 0, 3>>, <<-15, -10, -1>>, <<15, -10, -1>>, <<0, 20, -1>> >>,
   indexed |-> TRUE,
   index |-> <<3, 2, 1, 1, 2, 0, 2, 3, 0, 3, 1, 0>>]

Meshes == {Hull, Sheet}

\* BufferAttribute.count of the position attribute / of the index
PosCount(g) == Len(g.position)
IndexCount(g) == Len(g.index)
\* posAttr vertex i (0-based), index.getX(i)
VertexAt(g, i) == g.position[i + 1]
GetX(g, i) == g.index[i + 1]

\* ------------------------------------------------- calculateMeshProperties

\* (mutation of FaceOf: with an index, i3 is read at the place of i2)
FaceOf_RepeatedIndex(g, i) ==
  IF g.indexed
  THEN <<VertexAt(g, GetX(g, i * 3)), VertexAt(g, GetX(g, i * 3 + 1)),
         VertexAt(g, GetX(g, i * 3 + 1))>>
  ELSE <<VertexAt(g, i * 3), VertexAt(g, i * 3 + 1), VertexAt(g, i * 3 + 2)>>

\* the three vertices of face i
FaceOf(g, i) ==
  IF g.indexed
  THEN <<VertexAt(g, GetX(g, i * 3)), VertexAt(g, GetX(g, i * 3 + 1)),
         VertexAt(g, GetX(g, i * 3 + 2))>>
  ELSE <<VertexAt(g, i * 3), VertexAt(g, i * 3 + 1), VertexAt(g, i * 3 + 2)>>

\* six times the signed volume of the tetrahedron (origin, p1, p2, p3)
Term6(p1, p2, p3) ==
  LET v321 == p3[1] * p2[2] * p1[3]
      v231 == p2[1] * p3[2] * p1[3]
      v312 == p3[1] * p1[2] * p2[3]
      v132 == p1[1] * p3[2] * p2[3]
      v213 == p2[1] * p1[2] * p3[3]
      v123 == p1[1] * p2[2] * p3[3]
  IN  -v321 + v231 + v312 - v132 - v213 + v123

\* the accumulators <<volume, cx, cy, cz>> after faces 0 .. n-1
\* (volume x 6, moments x 24)
RECURSIVE MeshSums(_, _)
MeshSums(g, n) ==
  IF n = 0 THEN <<0, 0, 0, 0>>
  ELSE LET acc == MeshSums(g, n - 1)
           f == FaceOf(g, n - 1)
           term == Term6(f[1], f[2], f[3])
       IN  <<acc[1] + term,
             acc[2] + term * (f[1][1] + f[2][1] + f[3][1]),
             acc[3] + term * (f[1][2] + f[2][2] + f[3][2]),
             acc[4] + term * (f[1][3] + f[2][3] + f[3][3])>>

calculateMeshProperties(g) ==
  LET faces == IF g.indexed THEN IndexCount(g) \div 3 ELSE PosCount(g) \div 3
      s == MeshSums(g, faces)
  IN  [volume |-> Abs(s[1]),
       cog |-> <<FDiv(s[2], 4 * s[1]), FDiv(s[3], 4 * s[1]), FDiv(s[4], 4 * s[1])>>]

\* ------------------------------------------------------- the world matrix

\* positionZ as a pair <<cells, fine>>, 0 <= fine < Cell
ZAdd(z, d) ==
  LET f == z[2] + d
  IN  IF f < 0 THEN <<z[1] - 1, f + Cell>>
      ELSE IF f >= Cell THEN <<z[1] + 1, f - Cell>>
      ELSE <<z[1], f>>
\* z2 - z1 in fine units (the two at most a few cells apart)
ZDiff(z2, z1) == (z2[1] - z1[1]) * Cell + (z2[2] - z1[2])
\* positionZ in cells, rounded to the nearest
ZCells(z) == IF 2 * z[2] >= Cell THEN z[1] + 1 ELSE z[1]
ZZero == <<0, 0>>

\* Math.sin and Math.cos of an angle of t units (0.0001 rad), times Q
SinQ(t) == t - RoundDiv(RoundDiv(t * t, 100) * t, 6 * Q * 100)
CosQ(t) == Q - RoundDiv(t * t, 2 * Q)

\* A pose is [z, rx, ry]; rx and ry may be NaN.
PoseFin(p) == IsFin(p.rx) /\ IsFin(p.ry)

\* a world point, and the world point whose components are all NaN
Pt(x, y, z) == [x |-> x, y |-> y, z |-> z, nan |-> FALSE]
NaNPt == [x |-> 0, y |-> 0, z |-> 0, nan |-> TRUE]

\* Vector3.applyMatrix4 with the matrixWorld of the group at pose p
\* (position.z = z, rotation.x = rx, rotation.y = ry, Euler order XYZ):
\* a world point [x, y, z, nan]; every component is NaN when the matrix or
\* the vector holds a NaN or an infinity (0 * Infinity in the w term).
applyMatrix4(v, p) ==
  IF ~PoseFin(p) \/ ~VecFin(v) THEN NaNPt
  ELSE
    LET a == CosQ(p.rx.v)
        b == SinQ(p.rx.v)
        c == CosQ(p.ry.v)
        d == SinQ(p.ry.v)
        x == v[1].v
        y == v[2].v
        z == v[3].v
    IN  Pt(RoundDiv(c * x + d * z, Q),
           RoundDiv(RoundDiv(b * d, Q) * x + a * y - RoundDiv(b * c, Q) * z, Q),
           RoundDiv(b * y - RoundDiv(a * d, Q) * x + RoundDiv(a * c, Q) * z, Q)
             + ZCells(p.z))

\* ---------------------------------------------- calculateSubmergedProperties

\* EPSILON = 1e-5 m^3 as a fraction of the volume unit: 1e-5 * 6000 = 3/50
EPSILON_NUM == 3
EPSILON_DEN == 50

\* (mutation of Under: a vertex in the surface counts as submerged)
Under_OrAt(v) == ~v.nan /\ v.z <= 0

\* (mutation of Under: the side of the plane is mistaken)
Under_Above(v) == ~v.nan /\ v.z > 0

\* v.z < 0 (false for NaN)
Under(v) == ~v.nan /\ v.z < 0

\* (mutation of addTriangleContribution: the moments leave out the third vertex)
addTriangleContribution_TwoVertices(p1, p2, p3) ==
  LET vol == p1.x * (p2.y * p3.z - p2.z * p3.y)
           + p1.y * (p2.z * p3.x - p2.x * p3.z)
           + p1.z * (p2.x * p3.y - p2.y * p3.x)
  IN  <<vol, vol * (p1.x + p2.x), vol * (p1.y + p2.y), vol * (p1.z + p2.z)>>

\* p1.dot(p2.clone().cross(p3)) and the moments: what one submerged triangle
\* adds to <<totalVolume, momentX, momentY, momentZ>> (volume x 6, moments x 24)
addTriangleContribution(p1, p2, p3) ==
  LET vol == p1.x * (p2.y * p3.z - p2.z * p3.y)
           + p1.y * (p2.z * p3.x - p2.x * p3.z)
           + p1.z * (p2.x * p3.y - p2.y * p3.x)
  IN  <<vol, vol * (p1.x + p2.x + p3.x), vol * (p1.y + p2.y + p3.y),
        vol * (p1.z + p2.z + p3.z)>>

Sum4(c1, c2) == <<c1[1] + c2[1], c1[2] + c2[2], c1[3] + c2[3], c1[4] + c2[4]>>

\* (mutation of intersectPlane: the far end of the segment dropped onto the plane)
intersectPlane_FarEnd(p1, p2) == Pt(p2.x, p2.y, 0)

\* intersection of the segment p1 p2 with the plane z = 0 (p1.z # p2.z)
intersectPlane(p1, p2) ==
  Pt(p1.x + RoundDiv((-p1.z) * (p2.x - p1.x), p2.z - p1.z),
     p1.y + RoundDiv((-p1.z) * (p2.y - p1.y), p2.z - p1.z),
     0)

\* the arguments <<p1, p2>> of the calls of intersectPlane for the world
\* triangle vA vB vC, in the order of the calls (i1, then i2)
PlaneCalls(vA, vB, vC) ==
  LET aUnder == Under(vA)
      bUnder == Under(vB)
      cUnder == Under(vC)
      countUnder == (IF aUnder THEN 1 ELSE 0) + (IF bUnder THEN 1 ELSE 0)
                    + (IF cUnder THEN 1 ELSE 0)
  IN  CASE countUnder = 1 ->
             IF aUnder THEN << <<vA, vB>>, <<vA, vC>> >>
             ELSE IF bUnder THEN << <<vB, vC>>, <<vB, vA>> >>
             ELSE << <<vC, vA>>, <<vC, vB>> >>
        [] countUnder = 2 ->
             IF ~aUnder THEN << <<vA, vB>>, <<vA, vC>> >>
             ELSE IF ~bUnder THEN << <<vB, vC>>, <<vB, vA>> >>
             ELSE << <<vC, vA>>, <<vC, vB>> >>
        [] OTHER -> << >>

\* (mutation of SubTriangles: a triangle that touches the water is passed whole)
SubTriangles_Whole(vA, vB, vC) ==
  IF Under(vA) \/ Under(vB) \/ Under(vC) THEN << <<vA, vB, vC>> >> ELSE << >>

\* the triangles passed to addTriangleContribution for the world triangle vA vB vC,
\* in the order of the calls
SubTriangles(vA, vB, vC) ==
  LET aUnder == Under(vA)
      bUnder == Under(vB)
      cUnder == Under(vC)
      countUnder == (IF aUnder THEN 1 ELSE 0) + (IF bUnder THEN 1 ELSE 0)
                    + (IF cUnder THEN 1 ELSE 0)
  IN  CASE countUnder = 0 -> << >>
        [] countUnder = 3 -> << <<vA, vB, vC>> >>
        [] countUnder = 1 ->
             LET pUnder == IF aUnder THEN vA ELSE IF bUnder THEN vB ELSE vC
                 pOver1 == IF aUnder THEN vB ELSE IF bUnder THEN vC ELSE vA
                 pOver2 == IF aUnder THEN vC ELSE IF bUnder THEN vA ELSE vB
                 calls == PlaneCalls(vA, vB, vC)
                 i1 == intersectPlane(calls[1][1], calls[1][2])
                 i2 == intersectPlane(calls[2][1], calls[2][2])
             IN  IF aUnder THEN << <<pUnder, i1, i2>> >>
                 ELSE IF bUnder THEN << <<i2, pUnder, i1>> >>
                 ELSE << <<i1, i2, pUnder>> >>
        [] OTHER ->
             LET pOver == IF ~aUnder THEN vA ELSE IF ~bUnder THEN vB ELSE vC
                 pUnder1 == IF ~aUnder THEN vB ELSE IF ~bUnder THEN vC ELSE vA
                 pUnder2 == IF ~aUnder THEN vC ELSE IF ~bUnder THEN vA ELSE vB
                 calls == PlaneCalls(vA, vB, vC)
                 i1 == intersectPlane(calls[1][1], calls[1][2])
                 i2 == intersectPlane(calls[2][1], calls[2][2])
             IN  IF ~aUnder
                 THEN << <<i1, pUnder1, pUnder2>>, <<i1, pUnder2, i2>> >>
                 ELSE IF ~bUnder
                 THEN << <<pUnder2, i2, i1>>, <<pUnder2, i1, pUnder1>> >>
                 ELSE << <<pUnder1, pUnder2, i2>>, <<pUnder1, i2, i1>> >>

\* the accumulators after the calls for the triangles ts
SumContributions(ts) ==
  CASE Len(ts) = 0 -> <<0, 0, 0, 0>>
    [] Len(ts) = 1 -> addTriangleContribution(ts[1][1], ts[1][2], ts[1][3])
    [] OTHER -> Sum4(addTriangleContribution(ts[1][1], ts[1][2], ts[1][3]),
                     addTriangleContribution(ts[2][1], ts[2][2], ts[2][3]))

\* what the world triangle vA vB vC adds to the accumulators
ClipTriangle(vA, vB, vC) == SumContributions(SubTriangles(vA, vB, vC))

\* vertex i of the loop (0-based, through the index when there is one), in world space
WorldVertex(g, p, i) ==
  LET v == IF g.indexed THEN VertexAt(g, GetX(g, i)) ELSE VertexAt(g, i)
  IN  applyMatrix4(FVec(v[1], v[2], v[3]), p)

\* the accumulators after the triangles that start at 0, 3, .., i - 3
RECURSIVE ClipSums(_, _, _)
ClipSums(g, p, i) ==
  IF i <= 0 THEN <<0, 0, 0, 0>>
  ELSE Sum4(ClipSums(g, p, i - 3),
            ClipTriangle(WorldVertex(g, p, i - 3), WorldVertex(g, p, i - 2),
                         WorldVertex(g, p, i - 1)))

\* (mutation of SubmergedResult: only a sum of exactly zero gives the zero result)
SubmergedResult_ZeroOnly(acc, k) ==
  IF acc[1] = 0
  THEN [volume |-> 0, center |-> FVec(0, 0, 0)]
  ELSE [volume |-> Abs(acc[1]),
        center |-> <<FDiv(acc[2], 4 * acc[1]), FDiv(acc[3], 4 * acc[1]),
                     FDiv(acc[4], 4 * acc[1])>>]

\* (mutation of SubmergedResult: the signed sum is returned as the volume)
SubmergedResult_Signed(acc, k) ==
  IF Abs(acc[1]) * EPSILON_DEN < EPSILON_NUM * k * k * k
  THEN [volume |-> 0, center |-> FVec(0, 0, 0)]
  ELSE [volume |-> acc[1],
        center |-> <<FDiv(acc[2], 4 * acc[1]), FDiv(acc[3], 4 * acc[1]),
                     FDiv(acc[4], 4 * acc[1])>>]

\* {volume, center} from the accumulators, for lengths in units of 1/k cell
\* (k = 1 in the solver; EPSILON is k^3 times larger in the finer unit).  Only
\* world points without NaN reach the accumulators (a NaN vertex is never under
\* water), so the sums are numbers.
SubmergedResult(acc, k) ==
  IF Abs(acc[1]) * EPSILON_DEN < EPSILON_NUM * k * k * k
  THEN [volume |-> 0, center |-> FVec(0, 0, 0)]
  ELSE [volume |-> Abs(acc[1]),
        center |-> <<FDiv(acc[2], 4 * acc[1]), FDiv(acc[3], 4 * acc[1]),
                     FDiv(acc[4], 4 * acc[1])>>]

\* count = index ? index.count : posAttr.count
VertexCount(g) == IF g.indexed THEN IndexCount(g) ELSE PosCount(g)

calculateSubmergedProperties(g, p) == SubmergedResult(ClipSums(g, p, VertexCount(g)), 1)

\* ------------------------------------------------------ Solver: one frame

\* GRAVITY = 9.81 in units of 0.01 m/s^2
GRAVITY == 981
MAX_ITERATIONS == 5
\* the heave clamp 0.5 in heaveStep units, the rotation clamp 0.05 in pitchStep units
HEAVE_CLAMP == Cell \div 2
ROT_CLAMP == 25

ZeroPose == [z |-> ZZero, rx |-> Fin(0), ry |-> Fin(0)]

\* (mutation of MassAndMoment: each weight overwrites the moment instead of adding to it)
RECURSIVE MassAndMoment_Overwrite(_, _, _)
MassAndMoment_Overwrite(base, ws, n) ==
  IF n = 0
  THEN [totalMass |-> base.mass,
        momentSum |-> <<FScale(base.cog[1], base.mass), FScale(base.cog[2], base.mass),
                        FScale(base.cog[3], base.mass)>>]
  ELSE [totalMass |-> MassAndMoment_Overwrite(base, ws, n - 1).totalMass + ws[n].mass,
        momentSum |-> <<Fin(ws[n].position[1] * ws[n].mass),
                        Fin(ws[n].position[2] * ws[n].mass),
                        Fin(ws[n].position[3] * ws[n].mass)>>]

\* totalMass and momentSum after base and the first n weights (weights.forEach)
RECURSIVE MassAndMoment(_, _, _)
MassAndMoment(base, ws, n) ==
  IF n = 0
  THEN [totalMass |-> base.mass,
        momentSum |-> <<FScale(base.cog[1], base.mass), FScale(base.cog[2], base.mass),
                        FScale(base.cog[3], base.mass)>>]
  ELSE LET acc == MassAndMoment(base, ws, n - 1)
           w == ws[n]
       IN  [totalMass |-> acc.totalMass + w.mass,
            momentSum |-> <<FAdd(acc.momentSum[1], Fin(w.position[1] * w.mass)),
                            FAdd(acc.momentSum[2], Fin(w.position[2] * w.mass)),
                            FAdd(acc.momentSum[3], Fin(w.position[3] * w.mass))>>]

\* step 1 of the frame: [totalMass, combinedCOG_Local]
CombinedCOG(base, ws) ==
  LET acc == MassAndMoment(base, ws, Len(ws))
  IN  [totalMass |-> acc.totalMass,
       combinedCOG_Local |-> <<FDivScalar(acc.momentSum[1], acc.totalMass),
                               FDivScalar(acc.momentSum[2], acc.totalMass),
                               FDivScalar(acc.momentSum[3], acc.totalMass)>>]

\* heaveStep * DAMPING_TRANSLATION in fine units: netForceZ * 0.00005 clamped to +-0.5
HeaveStep(netForceZ) == Clamp(netForceZ, HEAVE_CLAMP)
\* pitchStep (rollStep) * DAMPING_ROTATION in angle units: d * 0.02 clamped to +-0.05
RotStep(d) == FClamp(d, ROT_CLAMP)

\* cogWorld: combinedCOG_Local.clone().applyMatrix4(matrixWorld)
CogWorld(cogLocal, p) ==
  IF applyMatrix4(cogLocal, p).nan THEN NaNVec
  ELSE FVec(applyMatrix4(cogLocal, p).x, applyMatrix4(cogLocal, p).y,
            applyMatrix4(cogLocal, p).z)

\* (mutation of RotateX: the sign of the pitch update is flipped)
RotateX_Plus(rx, pitchStep) == FAdd(rx, pitchStep)

\* rotationX.current -= pitchStep * DAMPING_ROTATION
RotateX(rx, pitchStep) == FSub(rx, pitchStep)
\* rotationY.current += rollStep * DAMPING_ROTATION
RotateY(ry, rollStep) == FAdd(ry, rollStep)

\* (mutation of SolverUpdate: no rotation when nothing is submerged)
SolverUpdate_NoTurnWhenDry(p, sub, cogWorld, totalMass, rho) ==
  [pose |-> [z |-> ZAdd(p.z, HeaveStep(sub.volume * rho * GRAVITY - totalMass * GRAVITY)),
             rx |-> IF sub.volume = 0 THEN p.rx
                    ELSE RotateX(p.rx, RotStep(FSub(cogWorld[2], sub.center[2]))),
             ry |-> IF sub.volume = 0 THEN p.ry
                    ELSE RotateY(p.ry, RotStep(FSub(cogWorld[1], sub.center[1])))],
   submergedVol |-> sub.volume,
   cobWorld |-> sub.center,
   cogWorld |-> cogWorld,
   netForceZ |-> sub.volume * rho * GRAVITY - totalMass * GRAVITY,
   dx |-> FSub(cogWorld[1], sub.center[1]),
   dy |-> FSub(cogWorld[2], sub.center[2])]

\* the loop body after the clipper and the world COG have been computed
SolverUpdate(p, sub, cogWorld, totalMass, rho) ==
  [pose |-> [z |-> ZAdd(p.z, HeaveStep(sub.volume * rho * GRAVITY - totalMass * GRAVITY)),
             rx |-> RotateX(p.rx, RotStep(FSub(cogWorld[2], sub.center[2]))),
             ry |-> RotateY(p.ry, RotStep(FSub(cogWorld[1], sub.center[1])))],
   submergedVol |-> sub.volume,
   cobWorld |-> sub.center,
   cogWorld |-> cogWorld,
   netForceZ |-> sub.volume * rho * GRAVITY - totalMass * GRAVITY,
   dx |-> FSub(cogWorld[1], sub.center[1]),
   dy |-> FSub(cogWorld[2], sub.center[2])]

\* (mutation of SolverIteration: the volume, COB and COG recorded are those at
\* the updated pose)
SolverIteration_ReportAtNewPose(p, g, totalMass, cogLocal, rho) ==
  LET u == SolverUpdate(p, calculateSubmergedProperties(g, p), CogWorld(cogLocal, p),
                        totalMass, rho)
  IN  [u EXCEPT !.submergedVol = calculateSubmergedProperties(g, u.pose).volume,
                !.cobWorld = calculateSubmergedProperties(g, u.pose).center,
                !.cogWorld = CogWorld(cogLocal, u.pose)]

\* (mutation of SolverIteration: the COG is taken to world space at the updated pose)
SolverIteration_CogAfterUpdate(p, g, totalMass, cogLocal, rho) ==
  SolverUpdate(p, calculateSubmergedProperties(g, p),
               CogWorld(cogLocal,
                        SolverUpdate(p, calculateSubmergedProperties(g, p),
                                     CogWorld(cogLocal, p), totalMass, rho).pose),
               totalMass, rho)

\* the body of the inner loop at pose p: the new pose and what was computed
SolverIteration(p, g, totalMass, cogLocal, rho) ==
  SolverUpdate(p, calculateSubmergedProperties(g, p), CogWorld(cogLocal, p), totalMass, rho)

\* --------------------------------------------------------- bounds, inputs

\* frames rendered, geometries delivered by the loaders, weights created,
\* values typed into the density inputs and values typed into the form
MaxTicks == 2
MaxGeoms == 2
MaxLoads == 2
MaxInputs == 1

\* 200 kg/m^3 and 1025 kg/m^3 in density units
DEFAULT_MATERIAL_DENSITY == 8
DEFAULT_WATER_DENSITY == 41
\* what the two density inputs can be set to (0 is Number("") of a cleared input)
Densities == {0, DEFAULT_MATERIAL_DENSITY, DEFAULT_WATER_DENSITY}

\* the form defaults: mass 100 kg, position (0, 0, 1 m)
DefaultForm == [mass |-> 100 * MassPerKg, x |-> 0, y |-> 0, z |-> 10]
\* what handleInputChange can be called with
FieldInputs == [mass |-> {1000 * MassPerKg}, x |-> {-5, 5}, y |-> {-5, 5}]
Fields == DOMAIN FieldInputs

\* geometry = null, and the key of the Solver element
NoMesh == [position |-> << >>, indexed |-> FALSE, index |-> << >>]
NoGeo == [uuid |-> 0, mesh |-> NoMesh]
SolverKey(g) == IF g = NoGeo THEN 0 ELSE g.uuid

\* the useState initial value of baseProps: mass 1000 kg, volume 1 m^3, cog (0, 0, 0)
PlaceholderProps(density) ==
  [mass |-> 1000 * MassPerKg, density |-> density, volume |-> VolPerM3,
   cog |-> FVec(0, 0, 0)]

\* ------------------------------------------------------------------ state

VARIABLES
  attached,           \* targetRef.current is the group
  geometry,           \* SceneContent geometry: [uuid, mesh] or NoGeo
  uuids,              \* geometries created so far
  baseProps,          \* SceneContent baseProps
  effectPending,      \* the recompute effect has a changed dependency and has not run
  baseDensity,        \* App state
  waterDensity,       \* App state
  weights,            \* App state: sequence of [id, mass, position]
  nextId,             \* ids handed out so far
  selectedWeightId,   \* App state, 0 for null
  form,               \* App state formMass, formX, formY, formZ
  stats,              \* App state stats: << >> for null, <<result>> otherwise
  inputs,             \* values typed so far into the density inputs and into the form
  positionZ,          \* Solver ref
  rotationX,          \* Solver ref
  rotationY,          \* Solver ref
  objectGroup,        \* the transform of the group: position.z, rotation.x, rotation.y
  running,            \* the useFrame callback is on the stack
  i,                  \* its loop counter
  totalMass,          \* its local
  combinedCOG_Local,  \* its local
  frame,              \* frames rendered so far
  lastFrame,          \* history: what the last frame did ("none", "skipped", "solved")
  snap,               \* history: the props and the pose when the last frame began
  used,               \* history: what each iteration of the last frame read and wrote
  emitted,            \* history: the results passed to onUpdate in the last frame
  refPose,            \* history: the pose of a solver that never sees the probe load
  probe,              \* history: "none", "added", "removed" for the probe load
  kernel              \* the last direct call of a geometry function: arguments and result

app == <<baseDensity, waterDensity, weights, nextId, selectedWeightId, form, inputs>>
scene == <<attached, geometry, uuids, baseProps, effectPending>>
solver == <<positionZ, rotationX, rotationY, objectGroup>>
callback == <<running, i, totalMass, combinedCOG_Local>>
history == <<frame, lastFrame, snap, used, emitted>>
vars == <<app, scene, solver, callback, history, stats, refPose, probe, kernel>>

\* no geometry function has been called directly
NoCall ==
  [fn |-> "none", mesh |-> NoMesh, pose |-> ZeroPose, grid |-> 1,
   acc |-> <<0, 0, 0, 0>>, out |-> [volume |-> 0, center |-> FVec(0, 0, 0)]]

\* the load followed through an add and a remove: the first one created
IsProbe(id) == id = 1

Pose == [z |-> positionZ, rx |-> rotationX, ry |-> rotationY]
Props == [meshGeometry |-> geometry, baseProperties |-> baseProps,
          weights |-> weights, waterDensity |-> waterDensity]
NoSnap == [props |-> [meshGeometry |-> NoGeo, baseProperties |-> PlaceholderProps(0),
                      weights |-> << >>, waterDensity |-> 0],
           attached |-> FALSE, pose |-> ZeroPose, objectGroup |-> ZeroPose,
           lastMesh |-> NoGeo]

Init ==
  /\ attached = FALSE
  /\ geometry = NoGeo
  /\ uuids = 0
  /\ baseProps = PlaceholderProps(DEFAULT_MATERIAL_DENSITY)
  /\ effectPending = FALSE
  /\ baseDensity = DEFAULT_MATERIAL_DENSITY
  /\ waterDensity = DEFAULT_WATER_DENSITY
  /\ weights = << >>
  /\ nextId = 0
  /\ selectedWeightId = 0
  /\ form = DefaultForm
  /\ stats = << >>
  /\ inputs = [density |-> 0, form |-> 0]
  /\ positionZ = ZZero
  /\ rotationX = Fin(0)
  /\ rotationY = Fin(0)
  /\ objectGroup = ZeroPose
  /\ running = FALSE
  /\ i = 0
  /\ totalMass = 0
  /\ combinedCOG_Local = FVec(0, 0, 0)
  /\ frame = 0
  /\ lastFrame = "none"
  /\ snap = NoSnap
  /\ used = << >>
  /\ emitted = << >>
  /\ refPose = ZeroPose
  /\ probe = "none"
  /\ kernel = NoCall

\* ------------------------------------------------- the scene (SceneContent)

\* (mutation of CallerIdle: handlers interleave with the loop)
CallerIdle_Anytime == attached

\* Handlers and effects run once SceneContent is committed (the group ref is set
\* in that commit), and JavaScript runs a callback to completion: none of them
\* runs while the useFrame callback is on the stack
CallerIdle == attached /\ ~running

\* (mutation of Remount: the refs survive the commit)
Remount_Keep(oldGeo, newGeo, old) == old

\* the refs of a Solver instance after a commit: a changed key remounts it
Remount(oldGeo, newGeo, old) ==
  IF SolverKey(newGeo) # SolverKey(oldGeo) THEN ZeroPose ELSE old

\* the group ref is set when SceneContent is committed
Attach ==
  /\ ~running
  /\ ~attached
  /\ attached' = TRUE
  /\ UNCHANGED <<geometry, uuids, baseProps, effectPending>>
  /\ UNCHANGED <<app, solver, callback, history, stats, refPose, probe, kernel>>

\* setGeometry(g) and the commit that follows
SetGeometry(g) ==
  /\ geometry' = g
  /\ effectPending' = TRUE
  /\ positionZ' = Remount(geometry, g, Pose).z
  /\ rotationX' = Remount(geometry, g, Pose).rx
  /\ rotationY' = Remount(geometry, g, Pose).ry
  /\ refPose' = Remount(geometry, g, refPose)
  /\ UNCHANGED <<attached, baseProps, objectGroup>>
  /\ UNCHANGED <<app, callback, history, probe, kernel>>

\* PlaceholderIsland / STLModel: a loader delivers a new BufferGeometry
LoadGeometry(m) ==
  /\ CallerIdle
  /\ uuids < MaxGeoms
  /\ uuids' = uuids + 1
  /\ SetGeometry([uuid |-> uuids + 1, mesh |-> m])
  /\ UNCHANGED stats

\* handleFileChange and the stlFile effect: stats and geometry are cleared
ClearGeometry ==
  /\ CallerIdle
  /\ geometry # NoGeo
  /\ stats' = << >>
  /\ SetGeometry(NoGeo)
  /\ UNCHANGED uuids

\* (mutation of RecomputedProps: the mass is left at the placeholder's)
RecomputedProps_MassKept(g, density) ==
  [mass |-> 1000 * MassPerKg, density |-> density,
   volume |-> calculateMeshProperties(g).volume, cog |-> calculateMeshProperties(g).cog]

\* the value the effect passes to setBaseProps for the mesh g and baseDensity
RecomputedProps(g, density) ==
  LET m == calculateMeshProperties(g)
  IN  [mass |-> m.volume * density, density |-> density,
       volume |-> m.volume, cog |-> m.cog]

\* the effect on [geometry, baseDensity]
RecomputeEffect ==
  /\ CallerIdle
  /\ effectPending
  /\ effectPending' = FALSE
  /\ baseProps' =
       IF geometry = NoGeo THEN baseProps
       ELSE RecomputedProps(geometry.mesh, baseDensity)
  /\ UNCHANGED <<attached, geometry, uuids>>
  /\ UNCHANGED <<app, solver, callback, history, stats, refPose, probe, kernel>>

\* ------------------------------------------------------------ the app (App)

SetBaseDensity(d) ==
  /\ CallerIdle
  /\ inputs.density < MaxInputs
  /\ d # baseDensity
  /\ baseDensity' = d
  /\ effectPending' = TRUE
  /\ inputs' = [inputs EXCEPT !.density = @ + 1]
  /\ UNCHANGED <<waterDensity, weights, nextId, selectedWeightId, form>>
  /\ UNCHANGED <<attached, geometry, uuids, baseProps>>
  /\ UNCHANGED <<solver, callback, history, stats, refPose, probe, kernel>>

SetWaterDensity(d) ==
  /\ CallerIdle
  /\ inputs.density < MaxInputs
  /\ d # waterDensity
  /\ waterDensity' = d
  /\ inputs' = [inputs EXCEPT !.density = @ + 1]
  /\ UNCHANGED <<baseDensity, weights, nextId, selectedWeightId, form>>
  /\ UNCHANGED <<scene, solver, callback, history, stats, refPose, probe, kernel>>

WeightIds(ws) == {ws[n].id : n \in 1..Len(ws)}

\* selectWeight(id) over the list ws it closes over: [selectedWeightId, form]
selectWeight(ws, id, sel, f) ==
  IF id \in WeightIds(ws)
  THEN LET w == CHOOSE x \in {ws[n] : n \in 1..Len(ws)} : x.id = id
       IN  [selectedWeightId |-> id,
            form |-> [mass |-> w.mass, x |-> w.position[1], y |-> w.position[2],
                      z |-> w.position[3]]]
  ELSE [selectedWeightId |-> sel, form |-> f]

\* (mutation of deselectWeight: the selection is kept)
deselectWeight_KeepId == [selectedWeightId |-> selectedWeightId, form |-> DefaultForm]

\* deselectWeight()
deselectWeight == [selectedWeightId |-> 0, form |-> DefaultForm]

\* the weight w after handleInputChange(field, value) in edit mode
EditWeight(w, field, value) ==
  [id |-> w.id,
   mass |-> IF field = "mass" THEN value ELSE w.mass,
   position |-> <<IF field = "x" THEN value ELSE w.position[1],
                  IF field = "y" THEN value ELSE w.position[2],
                  IF field = "z" THEN value ELSE w.position[3]>>]

SelectWeight(id) ==
  /\ CallerIdle
  /\ id \in WeightIds(weights)
  /\ id # selectedWeightId
  /\ selectedWeightId' = selectWeight(weights, id, selectedWeightId, form).selectedWeightId
  /\ form' = selectWeight(weights, id, selectedWeightId, form).form
  /\ UNCHANGED <<baseDensity, waterDensity, weights, nextId, inputs>>
  /\ UNCHANGED <<scene, solver, callback, history, stats, refPose, probe, kernel>>

DeselectWeight ==
  /\ CallerIdle
  /\ selectedWeightId # 0
  /\ selectedWeightId' = deselectWeight.selectedWeightId
  /\ form' = deselectWeight.form
  /\ UNCHANGED <<baseDensity, waterDensity, weights, nextId, inputs>>
  /\ UNCHANGED <<scene, solver, callback, history, stats, refPose, probe, kernel>>

HandleInputChange(field, value) ==
  /\ CallerIdle
  /\ inputs.form < MaxInputs
  /\ value # form[field]
  /\ form' = [form EXCEPT ![field] = value]
  /\ weights' =
       IF selectedWeightId # 0
       THEN [n \in 1..Len(weights) |->
               IF weights[n].id = selectedWeightId
               THEN EditWeight(weights[n], field, value) ELSE weights[n]]
       ELSE weights
  /\ inputs' = [inputs EXCEPT !.form = @ + 1]
  /\ UNCHANGED <<baseDensity, waterDensity, nextId, selectedWeightId>>
  /\ UNCHANGED <<scene, solver, callback, history, stats, refPose, probe, kernel>>

\* addWeight(): selectWeight(newWeight.id) searches the list of this render,
\* which does not hold the new weight yet
AddWeight ==
  /\ CallerIdle
  /\ nextId < MaxLoads
  /\ LET newWeight == [id |-> nextId + 1, mass |-> form.mass,
                       position |-> <<form.x, form.y, form.z>>]
         sel == selectWeight(weights, newWeight.id, selectedWeightId, form)
     IN  /\ weights' = Append(weights, newWeight)
         /\ selectedWeightId' = sel.selectedWeightId
         /\ form' = sel.form
         /\ probe' = IF IsProbe(newWeight.id) THEN "added" ELSE probe
  /\ nextId' = nextId + 1
  /\ UNCHANGED <<baseDensity, waterDensity, inputs>>
  /\ UNCHANGED <<scene, solver, callback, history, stats, refPose, kernel>>

\* (mutation of WithoutWeight: nothing is filtered out)
WithoutWeight_Keep(ws, id) == ws

\* weights.filter(w => w.id !== id)
WithoutWeight(ws, id) == SelectSeq(ws, LAMBDA w : w.id # id)

RemoveWeight(id) ==
  /\ CallerIdle
  /\ id \in WeightIds(weights)
  /\ weights' = WithoutWeight(weights, id)
  /\ selectedWeightId' =
       IF selectedWeightId = id THEN deselectWeight.selectedWeightId ELSE selectedWeightId
  /\ form' = IF selectedWeightId = id THEN deselectWeight.form ELSE form
  /\ probe' = IF IsProbe(id) THEN "removed" ELSE probe
  /\ UNCHANGED <<baseDensity, waterDensity, nextId, inputs>>
  /\ UNCHANGED <<scene, solver, callback, history, stats, refPose, kernel>>

\* ------------------------------------------------- the frame (Solver.useFrame)

\* (mutation of CanSolve: no guard)
CanSolve_Always(g, att) == TRUE

\* the guard of the callback: if (!meshGeometry || !targetRef.current) return
CanSolve(g, att) == g # NoGeo /\ att

\* what a frame finds when it fires; lastMesh is the mesh the frame before it found
Snapshot ==
  [props |-> Props, attached |-> attached, pose |-> Pose, objectGroup |-> objectGroup,
   lastMesh |-> snap.props.meshGeometry]

\* the callback returns at the guard
Skipped ==
  /\ ~running
  /\ ~CanSolve(geometry, attached)
  /\ lastFrame' = "skipped"
  /\ snap' = Snapshot
  /\ used' = << >>
  /\ emitted' = << >>
  /\ UNCHANGED <<app, scene, solver, callback, stats, refPose, probe, kernel>>

\* a frame whose callback returns at the guard
SkipFrame ==
  /\ frame < MaxTicks
  /\ frame' = frame + 1
  /\ Skipped

\* the callback passes the guard: step 1, up to the loop
Begun ==
  /\ ~running
  /\ CanSolve(geometry, attached)
  /\ running' = TRUE
  /\ i' = 0
  /\ totalMass' = CombinedCOG(baseProps, weights).totalMass
  /\ combinedCOG_Local' = CombinedCOG(baseProps, weights).combinedCOG_Local
  /\ lastFrame' = "solved"
  /\ snap' = Snapshot
  /\ used' = << >>
  /\ emitted' = << >>
  /\ UNCHANGED <<app, scene, solver, stats, refPose, probe, kernel>>

\* a frame whose callback passes the guard
BeginFrame ==
  /\ frame < MaxTicks
  /\ frame' = frame + 1
  /\ Begun

\* The render loop left running: the same two frames, counted up to MaxTicks
\* and no further.
LoopSkipFrame ==
  /\ frame' = (IF frame < MaxTicks THEN frame + 1 ELSE frame)
  /\ Skipped

LoopBeginFrame ==
  /\ frame' = (IF frame < MaxTicks THEN frame + 1 ELSE frame)
  /\ Begun

\* the SolverResult built on the last iteration
Result(r, mass) ==
  [displacement |-> r.pose.z, rotationX |-> r.pose.rx, rotationY |-> r.pose.ry,
   submergedVolume |-> r.submergedVol, cob |-> r.cobWorld, totalMass |-> mass,
   combinedCOG |-> r.cogWorld]

\* the iteration of a solver that is given the weights without the probe load
RefIteration(p) ==
  LET c == CombinedCOG(baseProps, SelectSeq(weights, LAMBDA w : ~IsProbe(w.id)))
  IN  SolverIteration(p, geometry.mesh, c.totalMass, c.combinedCOG_Local, waterDensity)

\* (mutation of IsLast: the result is built on the first iteration)
IsLast_First(k) == k = 0

\* if (i === MAX_ITERATIONS - 1), and the loop test after i++
IsLast(k) == k = MAX_ITERATIONS - 1
LoopDone(k) == ~(k + 1 < MAX_ITERATIONS)

\* one pass through the loop body; the last one calls onUpdate, and the
\* callback returns when the loop test fails
Iterate ==
  /\ running
  /\ i < MAX_ITERATIONS
  /\ \E r \in {SolverIteration(Pose, geometry.mesh, totalMass, combinedCOG_Local,
                                 waterDensity)} :
       \E last \in {IsLast(i)} : \E done \in {LoopDone(i)} :
         /\ objectGroup' = Pose
         /\ positionZ' = r.pose.z
         /\ rotationX' = r.pose.rx
         /\ rotationY' = r.pose.ry
         /\ stats' = IF last THEN <<Result(r, totalMass)>> ELSE stats
         /\ emitted' = IF last THEN Append(emitted, [i |-> i, result |-> Result(r, totalMass)])
                       ELSE emitted
         /\ used' = Append(used,
                      [props |-> Props, totalMass |-> totalMass,
                       combinedCOG_Local |-> combinedCOG_Local,
                       before |-> Pose, after |-> r.pose, dx |-> r.dx, dy |-> r.dy,
                       netForceZ |-> r.netForceZ, submergedVol |-> r.submergedVol,
                       cobWorld |-> r.cobWorld, cogWorld |-> r.cogWorld])
         /\ i' = IF done THEN 0 ELSE i + 1
         /\ running' = ~done
         /\ totalMass' = IF done THEN 0 ELSE totalMass
         /\ combinedCOG_Local' = IF done THEN FVec(0, 0, 0) ELSE combinedCOG_Local
  /\ refPose' = RefIteration(refPose).pose
  /\ UNCHANGED <<app, scene, frame, lastFrame, snap, probe, kernel>>

\* ------------------------------------------------------------ specification

SceneStep ==
  \/ Attach
  \/ \E m \in Meshes : LoadGeometry(m)
  \/ ClearGeometry
  \/ RecomputeEffect

DensityStep ==
  \/ \E d \in Densities : SetBaseDensity(d)
  \/ \E d \in Densities : SetWaterDensity(d)

FormStep ==
  \E field \in Fields : \E value \in FieldInputs[field] : HandleInputChange(field, value)

SelectionStep ==
  \/ \E id \in 1..nextId : SelectWeight(id)
  \/ DeselectWeight

LoadStep ==
  \/ AddWeight
  \/ \E id \in 1..nextId : RemoveWeight(id)

FrameStep ==
  \/ SkipFrame
  \/ BeginFrame
  \/ Iterate

Next == SceneStep \/ DensityStep \/ FormStep \/ SelectionStep \/ LoadStep \/ FrameStep

Spec == Init /\ [][Next]_vars

\* The behaviours in which the user changes the scene and the densities and adds
\* no weights
SceneNext == SceneStep \/ DensityStep \/ FrameStep

SpecScene == Init /\ [][SceneNext]_vars

\* The behaviours in which the hull is the only mesh loaded and the user works
\* on the weights
HullStep ==
  \/ Attach
  \/ LoadGeometry(Hull)
  \/ RecomputeEffect

LoadsNext == HullStep \/ FormStep \/ LoadStep \/ FrameStep

SpecLoads == Init /\ [][LoadsNext]_vars

\* The behaviours in which the hull is the only mesh loaded and the user sets
\* the material density and the mass of the weights
BallastStep ==
  \/ \E d \in Densities : SetBaseDensity(d)
  \/ \E value \in FieldInputs.mass : HandleInputChange("mass", value)

ProbeNext == HullStep \/ BallastStep \/ LoadStep \/ FrameStep

SpecProbe == Init /\ [][ProbeNext]_vars

\* The behaviours in which the raft is the only mesh loaded and the user works
\* on the weights
RaftStep ==
  \/ Attach
  \/ LoadGeometry(Raft)
  \/ RecomputeEffect

DryNext == RaftStep \/ FormStep \/ LoadStep \/ FrameStep

SpecDry == Init /\ [][DryNext]_vars

\* The behaviours in which the user works on the weight list and the form and no
\* frame runs
EditNext == Attach \/ FormStep \/ SelectionStep \/ LoadStep

SpecEdit == Init /\ [][EditNext]_vars

\* The behaviours in which the user changes the scene and the density of the
\* water and adds weights with the form as it stands
SinkNext ==
  \/ SceneStep
  \/ \E d \in Densities : SetWaterDensity(d)
  \/ AddWeight
  \/ FrameStep

SpecSink == Init /\ [][SinkNext]_vars

\* The behaviours in which the render loop never stops: the user loads meshes
\* and sets a density, adds no weights, and the first frame is rendered once
\* the material density is that of the fluid; the frames then go on.  The
\* effect is taken to run before the next frame begins.  (In other
\* configurations the hull can sink without end: with water of density 0, or
\* with the placeholder's mass.)
FrameDue == ~effectPending /\ baseDensity = waterDensity

LoopStep ==
  \/ FrameDue /\ LoopSkipFrame
  \/ FrameDue /\ LoopBeginFrame
  \/ Iterate

SetUpStep ==
  /\ frame = 0
  /\ \/ \E m \in Meshes : LoadGeometry(m)
     \/ \E d \in Densities : SetBaseDensity(d)
     \/ \E d \in Densities \ {0} : SetWaterDensity(d)

SettleNext ==
  \/ Attach
  \/ RecomputeEffect
  \/ SetUpStep
  \/ LoopStep

\* requestAnimationFrame keeps calling useFrame, a callback that has begun
\* runs to its end, and React runs a pending effect and sets the ref after
\* the commit.  Each condition is stated on the variables that mark the step:
\* among the steps of SettleNext, running becomes true in LoopBeginFrame only,
\* i or running changes while running in Iterate only, and effectPending is
\* cleared in RecomputeEffect only.
FrameBegins == FrameDue /\ ~running /\ CanSolve(geometry, attached) /\ running' = TRUE
LoopRuns ==
  /\ running
  /\ i < MAX_ITERATIONS
  /\ i' = (IF LoopDone(i) THEN 0 ELSE i + 1)
  /\ running' = ~LoopDone(i)
EffectRuns == CallerIdle /\ effectPending /\ effectPending' = FALSE

SettleFairness ==
  /\ WF_running(FrameBegins)
  /\ WF_<<i, running>>(LoopRuns)
  /\ WF_effectPending(EffectRuns)
  /\ WF_vars(Attach)

SpecSettle == Init /\ [][SettleNext]_vars /\ SettleFairness

\* ------------------------------- the geometry functions, called directly

\* g with the second and third vertex of every triangle exchanged: the same
\* surface with the opposite winding
SwapAt(sq, n) ==
  IF n % 3 = 2 THEN sq[n + 1] ELSE IF n % 3 = 0 THEN sq[n - 1] ELSE sq[n]

Reversed(g) ==
  [position |-> IF g.indexed THEN g.position
                ELSE [n \in 1..Len(g.position) |-> SwapAt(g.position, n)],
   indexed |-> g.indexed,
   index |-> [n \in 1..Len(g.index) |-> SwapAt(g.index, n)]]

\* The cube of half side h centred on the origin, outward wound; diag[f] says
\* which diagonal splits face f into two triangles.
CubeCorners(h) ==
  << <<-h, -h, -h>>, <<h, -h, -h>>, <<h, h, -h>>, <<-h, h, -h>>,
     <<-h, -h, h>>, <<h, -h, h>>, <<h, h, h>>, <<-h, h, h>> >>
CubeQuads ==
  << <<0, 3, 2, 1>>, <<4, 5, 6, 7>>, <<0, 1, 5, 4>>,
     <<2, 3, 7, 6>>, <<0, 4, 7, 3>>, <<1, 2, 6, 5>> >>
QuadSplit(q, d) ==
  IF d = 0 THEN <<q[1], q[2], q[3], q[1], q[3], q[4]>>
  ELSE <<q[1], q[2], q[4], q[2], q[3], q[4]>>
Cube(h, diag) ==
  [position |-> CubeCorners(h),
   indexed |-> TRUE,
   index |-> QuadSplit(CubeQuads[1], diag[1]) \o QuadSplit(CubeQuads[2], diag[2])
             \o QuadSplit(CubeQuads[3], diag[3]) \o QuadSplit(CubeQuads[4], diag[4])
             \o QuadSplit(CubeQuads[5], diag[5]) \o QuadSplit(CubeQuads[6], diag[6])]
Triangulations == [1..6 -> {0, 1}]

\* the cube of side 2 m (half side 10 cells)
UnitCubes == {Cube(10, d) : d \in Triangulations}

\* The closed, outward wound tetrahedron with corners at the origin and at a,
\* b, c on the axes: six times its volume is a * b * c.
Tetra(a, b, c) ==
  [position |-> << <<0, 0, 0>>, <<0, b, 0>>, <<a, 0, 0>>,
                   <<0, 0, 0>>, <<a, 0, 0>>, <<0, 0, c>>,
                   <<0, 0, 0>>, <<0, 0, c>>, <<0, b, 0>>,
                   <<a, 0, 0>>, <<0, b, 0>>, <<0, 0, c>> >>,
   indexed |-> FALSE,
   index |-> << >>]

\* a single triangle over the first quadrant, its corners at heights zA, zB, zC
Triangle(zA, zB, zC) ==
  [position |-> << <<4, 4, zA>>, <<8, 4, zB>>, <<4, 8, zC>> >>,
   indexed |-> FALSE,
   index |-> << >>]
Heights == {-3, -1, 0, 1, 3}
Triangles == {Triangle(zA, zB, zC) : zA \in Heights, zB \in Heights, zC \in Heights}

\* the length unit of the two small tetrahedra: 1/5 cell (2 cm)
FineGrid == 5

\* the closed meshes the functions are called with, each with its length unit
\* (grid points per cell), and the open single triangles
ClosedInputs ==
  {[mesh |-> m, grid |-> 1] : m \in UnitCubes \cup {Hull, Sheet}}
    \cup {[mesh |-> Tetra(1, 2, 3), grid |-> FineGrid],
          [mesh |-> Tetra(1, 2, 4), grid |-> FineGrid]}
KernelInputs ==
  ClosedInputs
    \cup {[mesh |-> Reversed(c.mesh), grid |-> c.grid] : c \in ClosedInputs}
    \cup {[mesh |-> t, grid |-> 1] : t \in Triangles}
    \cup {[mesh |-> Reversed(t), grid |-> 1] : t \in Triangles}

\* the world transforms they are called with: depths in grid points, angles
KernelDepths == {-40, -20, -3, 0, 3, 20}
KernelAngles == {0, 300}
KernelPoses ==
  {[z |-> <<d, 0>>, rx |-> Fin(ax), ry |-> Fin(ay)] :
     d \in KernelDepths, ax \in KernelAngles, ay \in KernelAngles}

\* calculateMeshProperties(g) called directly (one direct call is followed)
Integrate(g, k) ==
  /\ kernel = NoCall
  /\ kernel' = [fn |-> "integrate", mesh |-> g, pose |-> ZeroPose, grid |-> k,
                acc |-> MeshSums(g, VertexCount(g) \div 3),
                out |-> [volume |-> calculateMeshProperties(g).volume,
                         center |-> calculateMeshProperties(g).cog]]
  /\ UNCHANGED <<app, scene, solver, callback, history, stats, refPose, probe>>

\* calculateSubmergedProperties(g, matrixWorld) called directly, the matrix
\* being that of pose p, with lengths in units of 1/k cell
Clip(g, p, k) ==
  /\ kernel = NoCall
  /\ \E acc \in {ClipSums(g, p, VertexCount(g))} :
       kernel' = [fn |-> "clip", mesh |-> g, pose |-> p, grid |-> k, acc |-> acc,
                  out |-> SubmergedResult(acc, k)]
  /\ UNCHANGED <<app, scene, solver, callback, history, stats, refPose, probe>>

KernelNext ==
  \/ \E c \in KernelInputs : Integrate(c.mesh, c.grid)
  \/ \E c \in KernelInputs : \E p \in KernelPoses : Clip(c.mesh, p, c.grid)

SpecKernel == Init /\ [][KernelNext]_vars

\* ------------------------------------------------------------ properties

\* the frame that last fired found these
FrameMesh == snap.props.meshGeometry
FrameWeights == snap.props.weights
FrameBase == snap.props.baseProperties

\* C1: a frame that fires while the mesh is absent or the group is not attached
\* is skipped: no iteration runs, the refs and the group transform keep their
\* values and onUpdate is not called.
C1_SkipWithoutMesh ==
  (frame > 0 /\ (FrameMesh = NoGeo \/ ~snap.attached)) =>
    /\ lastFrame = "skipped"
    /\ ~running
    /\ used = << >>
    /\ emitted = << >>
    /\ Pose = snap.pose
    /\ objectGroup = snap.objectGroup

\* a second frame skipped after a solved one: the group keeps the transform of the old mesh
C1_Witness ==
  /\ lastFrame = "skipped"
  /\ frame = 2
  /\ FrameMesh = NoGeo
  /\ objectGroup # ZeroPose

\* a mesh whose volume integral is zero
Degenerate(g) == g # NoGeo /\ calculateMeshProperties(g.mesh).volume = 0

\* C2: a frame that fires with a degenerate (zero volume) mesh is skipped: no
\* iteration runs, no result is emitted and no NaN enters the pose.
C2_SkipDegenerateMesh ==
  (frame > 0 /\ Degenerate(FrameMesh)) =>
    /\ lastFrame = "skipped"
    /\ used = << >>
    /\ emitted = << >>
    /\ IsFin(rotationX) /\ IsFin(rotationY)

\* C3: the first frame solved on a mesh (the frame before it found another mesh
\* or none) starts from the pose (0, 0, 0).
C3_PoseResetOnNewMesh ==
  (lastFrame = "solved" /\ snap.lastMesh # FrameMesh) =>
    /\ snap.pose = ZeroPose
    /\ used # << >> => used[1].before = ZeroPose

\* the first iteration on the second mesh has run from zero, and the group still
\* held the transform reached on the first mesh when the frame fired
C3_Witness ==
  /\ lastFrame = "solved"
  /\ Len(used) = 1
  /\ FrameMesh.uuid = 2
  /\ snap.lastMesh.uuid = 1
  /\ snap.objectGroup # ZeroPose
  /\ used[1].before = ZeroPose

\* C4: a frame that is not skipped runs exactly 5 iterations and calls onUpdate
\* exactly once, on the fifth, with the pose after the fifth update and the
\* combined mass of the frame.
C4_FiveIterationsOneResult ==
  /\ running => (i < 5 /\ Len(used) = i /\ emitted = << >>)
  /\ (~running /\ lastFrame = "solved") =>
       /\ Len(used) = 5
       /\ Len(emitted) = 1
       /\ emitted[1].i = 4
       /\ emitted[1].result.displacement = used[5].after.z
       /\ emitted[1].result.rotationX = used[5].after.rx
       /\ emitted[1].result.rotationY = used[5].after.ry
       /\ emitted[1].result.totalMass = CombinedCOG(FrameBase, FrameWeights).totalMass

\* a finished frame whose fifth update moved the pose
C4_Witness ==
  /\ ~running
  /\ lastFrame = "solved"
  /\ Len(used) = 5
  /\ Len(emitted) = 1
  /\ used[5].after # used[5].before

\* the change of an angle in one iteration is a number of at most c units
AngleStepWithin(before, after, c) ==
  IsFin(FSub(after, before)) /\ Abs(FSub(after, before).v) <= c

\* the change of the pose from p to q is within n clamped steps
PoseStepWithin(p, q, n) ==
  /\ Abs(ZDiff(q.z, p.z)) <= n * HEAVE_CLAMP
  /\ AngleStepWithin(p.rx, q.rx, n * ROT_CLAMP)
  /\ AngleStepWithin(p.ry, q.ry, n * ROT_CLAMP)

\* C5: every iteration changes z by at most 0.05 and each angle by at most
\* 0.0025, and a whole frame changes z by at most 0.25 and each angle by at
\* most 0.0125.
C5_StepBounded ==
  /\ \A k \in 1..Len(used) : PoseStepWithin(used[k].before, used[k].after, 1)
  /\ Len(used) = 5 => PoseStepWithin(used[1].before, used[5].after, 5)

\* f is a number (or an infinity) above / below zero
Positive(f) == ~IsNaN(f) /\ f.v > 0
Negative(f) == ~IsNaN(f) /\ f.v < 0
Zero(f) == IsFin(f) /\ f.v = 0
\* the angle went down / up / stayed
Decreased(before, after) == IsFin(before) /\ IsFin(after) /\ after.v < before.v
Increased(before, after) == IsFin(before) /\ IsFin(after) /\ after.v > before.v

\* C6: in every iteration a positive dy strictly decreases rx and a negative dy
\* strictly increases it, a positive dx strictly increases ry and a negative dx
\* strictly decreases it, and a zero dx or dy leaves the angle as it was.
C6_RightingSigns ==
  \A k \in 1..Len(used) :
    /\ Positive(used[k].dy) => Decreased(used[k].before.rx, used[k].after.rx)
    /\ Negative(used[k].dy) => Increased(used[k].before.rx, used[k].after.rx)
    /\ Zero(used[k].dy) => used[k].after.rx = used[k].before.rx
    /\ Positive(used[k].dx) => Increased(used[k].before.ry, used[k].after.ry)
    /\ Negative(used[k].dx) => Decreased(used[k].before.ry, used[k].after.ry)
    /\ Zero(used[k].dx) => used[k].after.ry = used[k].before.ry

\* a frame in which the COG was ahead of the COB on y and pitch went down,
\* and roll, with dx zero, stayed
C6_Witness ==
  /\ Len(used) = 5
  /\ \A k \in 1..5 : /\ Positive(used[k].dy)
                     /\ Decreased(used[k].before.rx, used[k].after.rx)
                     /\ Zero(used[k].dx)
                     /\ used[k].after.ry = used[k].before.ry

\* C7: whatever the finite configuration, the pose stays finite (positionZ is
\* a number in every state of this model; the angles are checked).
C7_PoseFinite == IsFin(rotationX) /\ IsFin(rotationY)

\* the masses of ws summed from the back, and the moments about axis c
RECURSIVE SumOfMasses(_)
SumOfMasses(ws) == IF ws = << >> THEN 0 ELSE SumOfMasses(Tail(ws)) + Head(ws).mass
RECURSIVE SumOfMoments(_, _)
SumOfMoments(ws, c) ==
  IF ws = << >> THEN 0 ELSE SumOfMoments(Tail(ws), c) + Head(ws).mass * Head(ws).position[c]

\* (base mass x base cog + sum of load mass x load position) / combined mass, on axis c
ExpectedCOG(base, ws, c) ==
  FDivScalar(FAdd(FScale(base.cog[c], base.mass), Fin(SumOfMoments(ws, c))),
             base.mass + SumOfMasses(ws))

\* ws in the order given by the permutation f of its indices
Reordered(ws, f) == [n \in 1..Len(ws) |-> ws[f[n]]]

\* C8: in every frame the combined mass is the base mass plus the sum of the
\* load masses, the combined local COG is the mass-weighted mean of the base
\* COG and the load positions, and both are the same for every ordering of
\* the load list.
C8_CombinedMassAndCOG ==
  lastFrame = "solved" =>
    /\ \A k \in 1..Len(used) :
         /\ used[k].totalMass = FrameBase.mass + SumOfMasses(FrameWeights)
         /\ \A c \in 1..3 :
              used[k].combinedCOG_Local[c] = ExpectedCOG(FrameBase, FrameWeights, c)
    /\ \A f \in Permutations(1..Len(FrameWeights)) :
         CombinedCOG(FrameBase, Reordered(FrameWeights, f))
           = CombinedCOG(FrameBase, FrameWeights)

\* a frame solved with two loads of different mass moment on a hull of finite mass
C8_Witness ==
  /\ lastFrame = "solved"
  /\ Len(used) = 5
  /\ Len(FrameWeights) = 2
  /\ FrameWeights[1].position # FrameWeights[2].position
  /\ VecFin(used[5].combinedCOG_Local)
  /\ used[5].combinedCOG_Local # FrameBase.cog

\* C9: all iterations of a frame read the mesh, the load list, the base
\* properties and the fluid density that the frame found when it fired, and
\* the combined mass and COG computed from them; the caller's changes are
\* seen by the next frame.
C9_ConsistentSnapshot ==
  /\ \A k \in 1..Len(used) :
       /\ used[k].props = snap.props
       /\ used[k].totalMass = CombinedCOG(FrameBase, FrameWeights).totalMass
       /\ used[k].combinedCOG_Local = CombinedCOG(FrameBase, FrameWeights).combinedCOG_Local
  /\ running => Props = snap.props

\* the second frame has run on a load list that the caller has changed since
C9_Witness ==
  /\ frame = 2
  /\ Len(used) = 5
  /\ Len(FrameWeights) = 1
  /\ weights # FrameWeights

\* the pose is a fixed point of the loop body for the present configuration
AtRest(p, ws) ==
  /\ geometry # NoGeo
  /\ SolverIteration(p, geometry.mesh, CombinedCOG(baseProps, ws).totalMass,
                     CombinedCOG(baseProps, ws).combinedCOG_Local, waterDensity).pose = p

WithoutProbe(ws) == SelectSeq(ws, LAMBDA w : ~IsProbe(w.id))

\* the two poses agree within the tolerance of one cell in z, and in the angles
SameWithinTolerance(p, q) ==
  /\ Abs(q.z[1] - p.z[1]) <= 2
  /\ Abs(ZDiff(q.z, p.z)) <= Cell
  /\ p.rx = q.rx
  /\ p.ry = q.ry

KernelVertices ==
  {WorldVertex(kernel.mesh, kernel.pose, n) : n \in 0..(VertexCount(kernel.mesh) - 1)}
\* the triangles the call passed to the accumulator for the triangle that starts at vertex n
KernelSubTriangles(n) ==
  SubTriangles(WorldVertex(kernel.mesh, kernel.pose, n),
               WorldVertex(kernel.mesh, kernel.pose, n + 1),
               WorldVertex(kernel.mesh, kernel.pose, n + 2))
KernelStarts == {n \in 0..(VertexCount(kernel.mesh) - 1) : n % 3 = 0}

AllAbove == \A v \in KernelVertices : ~v.nan /\ v.z >= 0

\* C13: a clip call in which every world vertex has z >= 0 (z = 0 included)
\* returns volume 0 and centroid (0, 0, 0), and no triangle is passed to the
\* accumulator.
C13_AboveWaterIsEmpty ==
  (kernel.fn = "clip" /\ AllAbove) =>
    /\ kernel.out.volume = 0
    /\ kernel.out.center = FVec(0, 0, 0)
    /\ kernel.acc = <<0, 0, 0, 0>>
    /\ \A n \in KernelStarts : KernelSubTriangles(n) = << >>

\* a closed mesh of more than epsilon volume standing on the plane: its base
\* vertices lie on z = 0, its apex above
C13_Witness ==
  /\ kernel.fn = "clip"
  /\ kernel.mesh = Tetra(1, 2, 4)
  /\ AllAbove
  /\ \E v \in KernelVertices : v.z = 0
  /\ \E v \in KernelVertices : v.z > 0
  /\ kernel.out.volume = 0

\* the direct call was made with a closed mesh
KernelClosed ==
  \E c \in ClosedInputs : kernel.mesh = c.mesh \/ kernel.mesh = Reversed(c.mesh)

AllBelow == \A v \in KernelVertices : ~v.nan /\ v.z < 0

\* the mesh of the direct call with its vertices in world space
WorldMesh ==
  [position |-> [n \in 1..PosCount(kernel.mesh) |->
                   LET w == applyMatrix4(FVec(kernel.mesh.position[n][1],
                                              kernel.mesh.position[n][2],
                                              kernel.mesh.position[n][3]), kernel.pose)
                   IN  <<w.x, w.y, w.z>>],
   indexed |-> kernel.mesh.indexed,
   index |-> kernel.mesh.index]

\* the pose of the direct call is a translation
Unrotated == kernel.pose.rx = Fin(0) /\ kernel.pose.ry = Fin(0)

\* the clip result equals what calculateMeshProperties gives for the mesh:
\* the volume and centroid of the mesh as it stands in the world and, for a
\* translation, the volume of the mesh itself; the centroid is the local
\* centroid taken through the world matrix
MatchesIntegrated ==
  /\ kernel.out.volume = calculateMeshProperties(WorldMesh).volume
  /\ kernel.out.center = calculateMeshProperties(WorldMesh).cog
  /\ Unrotated => kernel.out.volume = calculateMeshProperties(kernel.mesh).volume
  /\ kernel.out.center = CogWorld(calculateMeshProperties(kernel.mesh).cog, kernel.pose)

\* the volume of the mesh of the direct call is at least EPSILON
AtLeastEpsilon(vol) ==
  vol * EPSILON_DEN >= EPSILON_NUM * kernel.grid * kernel.grid * kernel.grid

\* C14 as stated: for every closed mesh (that encloses a volume) with all
\* world vertices under water the clip result equals the integrated volume
\* and the integrated centroid in world space.
C14_SubmergedEqualsIntegrated ==
  (/\ kernel.fn = "clip"
   /\ KernelClosed
   /\ AllBelow
   /\ calculateMeshProperties(kernel.mesh).volume > 0) => MatchesIntegrated

\* C14 as amended: the same for every closed mesh whose volume is at least
\* EPSILON; below EPSILON the clip result is volume 0 and centroid (0, 0, 0),
\* wherever the mesh is.
C14_SubmergedMatchesIntegrated ==
  (kernel.fn = "clip" /\ KernelClosed /\ AllBelow) =>
    IF AtLeastEpsilon(calculateMeshProperties(WorldMesh).volume)
    THEN MatchesIntegrated
    ELSE kernel.out = [volume |-> 0, center |-> FVec(0, 0, 0)]

\* the hull, turned about both axes and wholly under water
C14_Witness ==
  /\ kernel.fn = "clip"
  /\ kernel.mesh = Hull
  /\ kernel.pose.rx = Fin(300)
  /\ kernel.pose.ry = Fin(300)
  /\ AllBelow
  /\ kernel.out.volume > 0
  /\ kernel.out.center # CogWorld(calculateMeshProperties(Hull).cog, ZeroPose)

\* the accumulators of a submerged box of 20 x 20 x 10 cells centred under the
\* origin: six times its volume, and 24 times its moments about the origin
HalfCubeSums == <<6 * 20 * 20 * 10, 0, 0, 24 * 20 * 20 * 10 * (-5)>>

\* C15: for the closed, outward wound cube of side 2 m centred on the origin,
\* with the identity world matrix, the clip result is volume 4 m^3 and
\* centroid (0, 0, -0.5 m), whichever diagonal triangulates each face.
C15_HalfSubmergedCube ==
  (kernel.fn = "clip" /\ kernel.mesh \in UnitCubes /\ kernel.pose = ZeroPose) =>
    /\ kernel.acc = HalfCubeSums
    /\ kernel.out = [volume |-> 4 * VolPerM3, center |-> FVec(0, 0, -5)]

\* a cube whose faces are not all split along the same diagonal, clipped at the origin
C15_Witness ==
  /\ kernel.fn = "clip"
  /\ kernel.pose = ZeroPose
  /\ \E d \in Triangulations :
       /\ kernel.mesh = Cube(10, d)
       /\ d[3] # d[4]
       /\ d[5] # d[6]
  /\ kernel.out.volume = 4 * VolPerM3

\* C16: whenever the accumulated volume of a call is zero, the centroid the
\* call returns is (0, 0, 0) (no quotient by zero appears in the result), for
\* calculateMeshProperties and for calculateSubmergedProperties.
C16_ZeroVolumeZeroCentroid ==
  (kernel.fn # "none" /\ kernel.acc[1] = 0) => kernel.out.center = FVec(0, 0, 0)

\* the segment from p to q meets the plane z = 0 in a grid point
ExactCut(p, q) ==
  /\ ((-p.z) * (q.x - p.x)) % Abs(q.z - p.z) = 0
  /\ ((-p.z) * (q.y - p.y)) % Abs(q.z - p.z) = 0

\* every edge the direct clip call cuts is cut in a grid point
ExactCuts ==
  \A n \in KernelStarts : \A a \in 0..2 : \A b \in 0..2 :
    LET p == WorldVertex(kernel.mesh, kernel.pose, n + a)
        q == WorldVertex(kernel.mesh, kernel.pose, n + b)
    IN  (Under(p) /\ ~Under(q)) => ExactCut(p, q)

\* what the direct call returns for the same mesh with the opposite winding
ReversedOut ==
  IF kernel.fn = "integrate"
  THEN [volume |-> calculateMeshProperties(Reversed(kernel.mesh)).volume,
        center |-> calculateMeshProperties(Reversed(kernel.mesh)).cog]
  ELSE SubmergedResult(ClipSums(Reversed(kernel.mesh), kernel.pose,
                                VertexCount(kernel.mesh)), kernel.grid)

\* C17: for a closed mesh of either winding and any pose, both functions
\* return a volume >= 0, the submerged volume is at most the volume of the
\* mesh (where the cuts fall on grid points: the volume of the mesh as it
\* stands in the world and, for a translation, of the mesh itself), and the
\* mesh with the opposite winding gives the same volume and centroid.
C17_VolumesAndWinding ==
  (kernel.fn # "none" /\ KernelClosed) =>
    /\ kernel.out.volume >= 0
    /\ kernel.out = ReversedOut
    /\ (kernel.fn = "clip" /\ ExactCuts) =>
         /\ kernel.out.volume <= calculateMeshProperties(WorldMesh).volume
         /\ Unrotated => kernel.out.volume <= calculateMeshProperties(kernel.mesh).volume

\* an inward wound cube cut by the plane: part of its volume is reported, as
\* a positive number, from a negative sum
C17_Witness ==
  /\ kernel.fn = "clip"
  /\ \E m \in UnitCubes : kernel.mesh = Reversed(m)
  /\ Unrotated
  /\ ExactCuts
  /\ \E v \in KernelVertices : Under(v)
  /\ \E v \in KernelVertices : ~Under(v)
  /\ kernel.acc[1] < 0
  /\ kernel.out.volume > 0
  /\ kernel.out.volume < calculateMeshProperties(kernel.mesh).volume

\* twice the area vector of the triangle t (its normal, by the right-hand rule)
AreaVector(t) ==
  LET ux == t[2].x - t[1].x
      uy == t[2].y - t[1].y
      uz == t[2].z - t[1].z
      vx == t[3].x - t[1].x
      vy == t[3].y - t[1].y
      vz == t[3].z - t[1].z
  IN  <<uy * vz - uz * vy, uz * vx - ux * vz, ux * vy - uy * vx>>
Dot3(u, v) == u[1] * v[1] + u[2] * v[2] + u[3] * v[3]
RECURSIVE SumAreaVectors(_)
SumAreaVectors(ts) ==
  IF ts = << >> THEN <<0, 0, 0>>
  ELSE LET a == AreaVector(Head(ts))
           r == SumAreaVectors(Tail(ts))
       IN  <<a[1] + r[1], a[2] + r[2], a[3] + r[3]>>

\* the world triangle of a direct clip call on a single triangle
KernelTriangle ==
  <<WorldVertex(kernel.mesh, kernel.pose, 0), WorldVertex(kernel.mesh, kernel.pose, 1),
    WorldVertex(kernel.mesh, kernel.pose, 2)>>
UnderSet == {c \in 1..3 : Under(KernelTriangle[c])}

\* The part of the triangle with z < 0 as a fraction ClipNum / ClipDen of the
\* whole, from the heights of the corners alone: with one corner under, the
\* small triangle similar to the whole at that corner; with two under, the
\* whole less the small triangle at the corner that is over.
ClipDen ==
  LET one == CHOOSE c \in 1..3 : IF Cardinality(UnderSet) = 1 THEN c \in UnderSet
                                  ELSE c \notin UnderSet
      others == (1..3) \ {one}
      o1 == CHOOSE c \in others : TRUE
      o2 == CHOOSE c \in others : c # o1
  IN  (KernelTriangle[one].z - KernelTriangle[o1].z)
        * (KernelTriangle[one].z - KernelTriangle[o2].z)
ClipNum ==
  LET one == CHOOSE c \in 1..3 : IF Cardinality(UnderSet) = 1 THEN c \in UnderSet
                                  ELSE c \notin UnderSet
      sq == KernelTriangle[one].z * KernelTriangle[one].z
  IN  IF Cardinality(UnderSet) = 1 THEN sq ELSE ClipDen - sq

\* a direct clip call on a single triangle that the plane cuts, in grid points
CutTriangle ==
  /\ kernel.fn = "clip"
  /\ VertexCount(kernel.mesh) = 3
  /\ Cardinality(UnderSet) \in {1, 2}
  /\ ExactCuts

\* C19: in each of the six cases of a triangle with one or two corners under
\* water, the clipper passes one sub-triangle (one corner under) or two (two
\* under); no sub-triangle is turned against the triangle (A, B, C) and none
\* reaches above the plane; their area vectors add up to that of the part of
\* the triangle with z < 0; and the signed volume they contribute is that of
\* the clipped polygon.
C19_SubTrianglesAreTheSubmergedPart ==
  CutTriangle =>
    LET subs == KernelSubTriangles(0)
        whole == AreaVector(KernelTriangle)
        part == SumAreaVectors(subs)
    IN  /\ Len(subs) = Cardinality(UnderSet)
        /\ \A n \in 1..Len(subs) :
             /\ Dot3(AreaVector(subs[n]), whole) >= 0
             /\ \A c \in 1..3 : subs[n][c].z <= 0
        /\ \A c \in 1..3 : part[c] * ClipDen = whole[c] * ClipNum
        /\ kernel.acc[1] * ClipDen
             = addTriangleContribution(KernelTriangle[1], KernelTriangle[2],
                                       KernelTriangle[3])[1] * ClipNum

\* each of the six cases has been clipped, with a part of non-zero area under water
CutCase(under) ==
  /\ CutTriangle
  /\ UnderSet = under
  /\ Unrotated
  /\ \A c \in 1..3 : KernelTriangle[c].z # 0
  /\ kernel.acc[1] # 0
C19_Witness ==
  /\ CutCase({2})
  /\ KernelTriangle[1].z # KernelTriangle[3].z
  /\ Len(KernelSubTriangles(0)) = 1

\* C20: a clip call returns volume 0 and centroid (0, 0, 0) exactly when the
\* absolute accumulated signed volume is below EPSILON; otherwise it returns
\* the absolute sum as the volume and moment / sum as the centroid.  So every
\* returned volume is 0 or at least EPSILON, also for a closed mesh wholly
\* under water whose volume is below EPSILON.
C20_EpsilonGuard ==
  kernel.fn = "clip" =>
    /\ IF AtLeastEpsilon(Abs(kernel.acc[1]))
       THEN /\ kernel.out.volume = Abs(kernel.acc[1])
            /\ \A c \in 1..3 :
                 kernel.out.center[c] = FDiv(kernel.acc[c + 1], 4 * kernel.acc[1])
       ELSE kernel.out = [volume |-> 0, center |-> FVec(0, 0, 0)]
    /\ kernel.out.volume = 0 <=> ~AtLeastEpsilon(Abs(kernel.acc[1]))
    /\ kernel.out.volume = 0 \/ AtLeastEpsilon(kernel.out.volume)

\* a closed mesh of 8e-6 m^3 wholly under water: the accumulated sum and
\* moment are not zero, the result is volume 0 at the origin
C20_Witness ==
  /\ kernel.fn = "clip"
  /\ kernel.mesh = Tetra(1, 2, 3)
  /\ AllBelow
  /\ kernel.acc[1] # 0
  /\ kernel.acc[4] # 0
  /\ kernel.out = [volume |-> 0, center |-> FVec(0, 0, 0)]

\* the volume and cog in baseProps are those of the mesh now loaded
PropsOfThisMesh ==
  /\ geometry # NoGeo
  /\ baseProps.volume = calculateMeshProperties(geometry.mesh).volume
  /\ baseProps.cog = calculateMeshProperties(geometry.mesh).cog

\* C18: once the effect has run after a change of the mesh or of the material
\* density, baseProps holds the volume and cog that calculateMeshProperties
\* gives for the mesh now loaded, the present material density, and mass =
\* volume x density; and a step that changes baseProps while the mesh stays
\* (a change of density alone) leaves volume and cog as they were.
C18_PropsFollowMeshAndDensity ==
  /\ []((geometry # NoGeo /\ ~effectPending) =>
         /\ PropsOfThisMesh
         /\ baseProps.density = baseDensity
         /\ baseProps.mass = baseProps.volume * baseDensity)
  /\ [][(PropsOfThisMesh /\ geometry' = geometry /\ baseProps' # baseProps) =>
          /\ baseProps'.volume = baseProps.volume
          /\ baseProps'.cog = baseProps.cog
          /\ baseProps'.density = baseDensity
          /\ baseProps'.mass = baseProps.volume * baseDensity]_vars

\* a frame has run on the hull with its properties at one density, and the
\* properties have since been recomputed for another density, the mesh being
\* the same
C18_Witness ==
  /\ lastFrame = "solved"
  /\ ~running
  /\ geometry.mesh = Hull
  /\ FrameMesh = geometry
  /\ ~effectPending
  /\ FrameBase.volume = baseProps.volume
  /\ FrameBase.cog = baseProps.cog
  /\ FrameBase.density # baseProps.density
  /\ FrameBase.mass # baseProps.mass
  /\ PropsOfThisMesh

\* iteration k of the last frame ran on a configuration that needs more
\* submerged volume than the mesh has: totalMass > waterDensity x mesh volume
Overloaded(k) ==
  used[k].totalMass
    > used[k].props.waterDensity * calculateMeshProperties(FrameMesh.mesh).volume

\* C11: in every iteration run on such a configuration the net force and the
\* heave step point down and positionZ decreases, the submerged volume is at
\* most the volume of the mesh, and the pose written is finite.
C11_SinksMonotonically ==
  lastFrame = "solved" =>
    \A k \in 1..Len(used) :
      Overloaded(k) =>
        /\ used[k].netForceZ < 0
        /\ ZDiff(used[k].after.z, used[k].before.z) < 0
        /\ used[k].submergedVol <= calculateMeshProperties(FrameMesh.mesh).volume
        /\ PoseFin(used[k].after)

\* a mesh is loaded whose material density is that of the fluid, with no loads
Neutral ==
  /\ geometry # NoGeo
  /\ weights = << >>
  /\ baseDensity = waterDensity

\* what an iteration finds at the present pose: the buoyancy balances the
\* weight and the COG stands over the COB
Equilibrium ==
  /\ geometry # NoGeo
  /\ LET c == CombinedCOG(baseProps, weights)
         r == SolverIteration(Pose, geometry.mesh, c.totalMass, c.combinedCOG_Local,
                              waterDensity)
     IN  /\ r.submergedVol * waterDensity = c.totalMass
         /\ r.dx = Fin(0)
         /\ r.dy = Fin(0)

\* C12: if from some time on a mesh is loaded whose material density equals
\* the fluid density, with no loads, then the frames bring the solver to a
\* state of equilibrium (submerged volume x fluid density = total mass, COG
\* over COB in x and y) that it does not leave.
C12_NeutralMeshSettles == (<>[]Neutral) => (<>[]Equilibrium)

\* C21: in every iteration the world COG is the combined local COG taken
\* through the matrix of the pose the iteration began with, the same pose the
\* clipper was given, and that pose is the transform the group is left with.
C21_OnePosePerIteration ==
  lastFrame = "solved" =>
    /\ \A k \in 1..Len(used) :
         /\ used[k].cogWorld = CogWorld(used[k].combinedCOG_Local, used[k].before)
         /\ [volume |-> used[k].submergedVol, center |-> used[k].cobWorld]
              = calculateSubmergedProperties(FrameMesh.mesh, used[k].before)
    /\ Len(used) > 0 => objectGroup = used[Len(used)].before

\* an iteration whose updates moved the world COG: at the pose it wrote the
\* COG stands elsewhere than where the iteration saw it
C21_Witness ==
  /\ lastFrame = "solved"
  /\ Len(used) = 5
  /\ \E k \in 1..5 :
       /\ VecFin(used[k].cogWorld)
       /\ PoseFin(used[k].after)
       /\ used[k].after.rx # used[k].before.rx
       /\ CogWorld(used[k].combinedCOG_Local, used[k].after) # used[k].cogWorld

\* the triangles of an indexed mesh written out as consecutive triples, and
\* a flat mesh given an index that names its vertices in order
Flattened(g) ==
  [position |-> [n \in 1..IndexCount(g) |-> VertexAt(g, GetX(g, n - 1))],
   indexed |-> FALSE,
   index |-> << >>]
WithIndex(g) ==
  [position |-> g.position, indexed |-> TRUE, index |-> [n \in 1..PosCount(g) |-> n - 1]]
OtherForm == IF kernel.mesh.indexed THEN Flattened(kernel.mesh) ELSE WithIndex(kernel.mesh)

\* C22: a direct call returns what the same call returns for the same
\* sequence of triangles in the other form (with an index, or as consecutive
\* triples), for calculateMeshProperties and, under every world transform,
\* for calculateSubmergedProperties.
C22_IndexedEqualsFlat ==
  /\ kernel.fn = "integrate" =>
       /\ kernel.acc = MeshSums(OtherForm, VertexCount(OtherForm) \div 3)
       /\ kernel.out = [volume |-> calculateMeshProperties(OtherForm).volume,
                        center |-> calculateMeshProperties(OtherForm).cog]
  /\ kernel.fn = "clip" =>
       /\ kernel.acc = ClipSums(OtherForm, kernel.pose, VertexCount(OtherForm))
       /\ kernel.out = SubmergedResult(kernel.acc, kernel.grid)

\* the hull, four vertices shared by four faces through the index, integrated
C22_Witness ==
  /\ kernel.fn = "integrate"
  /\ kernel.mesh = Hull
  /\ PosCount(OtherForm) = 3 * PosCount(Hull)
  /\ kernel.out.volume > 0

\* ------------------------------------------------------------------- C23
\* C23: once addWeight has run, the weight it created is in the list and is the
\* selected weight, so that the field edits that follow go to it.
C23_NewWeightSelected ==
  [][nextId' = nextId + 1 =>
       /\ nextId' \in WeightIds(weights')
       /\ selectedWeightId' = nextId']_vars

\* ------------------------------------------------------------------- C27
\* C27: selectedWeightId is null or the id of a weight in the list; removing the
\* selected weight clears the selection and removing another leaves it; a field
\* edit in edit mode changes the selected weight and no other.
Removed == WeightIds(weights) \ WeightIds(weights')

OthersKept ==
  /\ Len(weights') = Len(weights)
  /\ \A n \in 1..Len(weights) :
       weights[n].id # selectedWeightId => weights'[n] = weights[n]

C27_SelectionInList ==
  [][/\ selectedWeightId' = 0 \/ selectedWeightId' \in WeightIds(weights')
     /\ Removed # {} =>
          IF selectedWeightId \in Removed
          THEN selectedWeightId' = 0
          ELSE selectedWeightId' = selectedWeightId
     /\ (form' # form /\ selectedWeightId' = selectedWeightId /\ selectedWeightId # 0) =>
          /\ OthersKept
          /\ \E n \in 1..Len(weights) :
               /\ weights[n].id = selectedWeightId
               /\ weights'[n] # weights[n]
               /\ weights'[n].id = weights[n].id]_vars

\* two weights, one of them selected and just edited
C27_Witness ==
  /\ Len(weights) = 2
  /\ selectedWeightId \in WeightIds(weights)
  /\ inputs.form = 1
  /\ \E n \in 1..2 : weights[n].id = selectedWeightId
                       /\ <<form.x, form.y, form.z>> = weights[n].position
                       /\ form.mass = weights[n].mass
                       /\ (form.x # 0 \/ form.y # 0 \/ form.mass # DefaultForm.mass)

\* ------------------------------------------------------------------- C24
\* C24: a frame that passes the guard reads base properties derived from the
\* mesh it clips: their volume and cog are those calculateMeshProperties gives
\* for that mesh and their mass is that volume times the material density,
\* whatever the order of mesh loads, density changes, effect runs and frames.
\* (No handler runs inside the callback, so baseDensity is the material density
\* of the frame while it is running.)
C24_TickPropsOfTickMesh ==
  running =>
    /\ FrameBase.volume = calculateMeshProperties(FrameMesh.mesh).volume
    /\ FrameBase.cog = calculateMeshProperties(FrameMesh.mesh).cog
    /\ FrameBase.mass = FrameBase.volume * baseDensity

\* ------------------------------------------------------------------- C25
\* C25: the result a frame reports holds the pose after the fifth update
\* (displacement, rotationX, rotationY) next to the submerged volume, COB and
\* world COG computed at the pose before that update; the group is left with
\* the pose before the fifth update, keeps it until the next frame runs, and
\* takes the pose of the refs in the first iteration of that frame.
LastPass == used[MAX_ITERATIONS]

C25_ResultLagsPose ==
  /\ (lastFrame = "solved" /\ ~running) =>
       /\ Len(used) = MAX_ITERATIONS
       /\ Len(emitted) = 1
       /\ emitted[1].result.displacement = LastPass.after.z
       /\ emitted[1].result.rotationX = LastPass.after.rx
       /\ emitted[1].result.rotationY = LastPass.after.ry
       /\ emitted[1].result.submergedVolume
            = calculateSubmergedProperties(FrameMesh.mesh, LastPass.before).volume
       /\ emitted[1].result.cob
            = calculateSubmergedProperties(FrameMesh.mesh, LastPass.before).center
       /\ emitted[1].result.combinedCOG
            = CogWorld(LastPass.combinedCOG_Local, LastPass.before)
       /\ objectGroup = LastPass.before
  /\ (running /\ Len(used) = 0) => objectGroup = snap.objectGroup
  /\ (running /\ Len(used) > 0) =>
       /\ used[1].before = snap.pose
       /\ objectGroup = used[Len(used)].before

\* a second frame has ended whose fifth update moved and turned the hull: the
\* reported values differ from those at the reported pose, and the frame began
\* with the group one update behind the refs
C25_Witness ==
  /\ lastFrame = "solved" /\ ~running /\ frame = 2
  /\ PoseFin(LastPass.after)
  /\ LastPass.after.z # LastPass.before.z
  /\ LastPass.after.rx # LastPass.before.rx
  /\ emitted[1].result.submergedVolume
       # calculateSubmergedProperties(FrameMesh.mesh, LastPass.after).volume
  /\ emitted[1].result.combinedCOG # CogWorld(LastPass.combinedCOG_Local, LastPass.after)
  /\ snap.objectGroup # snap.pose
  /\ snap.objectGroup # ZeroPose

\* ------------------------------------------------------------------- C26
\* a !== b for two numbers (true when either is NaN)
Differs(a, b) == IsNaN(a) \/ IsNaN(b) \/ a # b

\* iteration k of the last frame got volume 0 from the clipper
Dry(k) == used[k].submergedVol = 0

\* C26: in an iteration in which the clipper reports volume 0 the COB is
\* (0, 0, 0), no buoyant force enters the net force, and the rotation is still
\* updated with the offsets of the world COG from that COB: rotationX changes
\* exactly when the world COG has a nonzero y and rotationY exactly when it has
\* a nonzero x.
C26_DryStillTurns ==
  \A k \in 1..Len(used) :
    Dry(k) =>
      /\ used[k].cobWorld = FVec(0, 0, 0)
      /\ used[k].netForceZ = -(used[k].totalMass * GRAVITY)
      /\ used[k].after.rx = RotateX(used[k].before.rx, RotStep(used[k].cogWorld[2]))
      /\ used[k].after.ry = RotateY(used[k].before.ry, RotStep(used[k].cogWorld[1]))
      /\ Differs(used[k].after.rx, used[k].before.rx) <=> Differs(used[k].cogWorld[2], Fin(0))
      /\ Differs(used[k].after.ry, used[k].before.ry) <=> Differs(used[k].cogWorld[1], Fin(0))

\* the raft has risen out of the water with a load off its axis on one side
\* only: one rotation changed in the dry iteration and the other did not
C26_Witness ==
  \E k \in 1..Len(used) :
    /\ Dry(k)
    /\ FrameMesh.mesh = Raft
    /\ VecFin(used[k].cogWorld)
    /\ used[k].cogWorld[1] # Fin(0)
    /\ used[k].cogWorld[2] = Fin(0)
    /\ used[k].after.ry # used[k].before.ry
    /\ used[k].after.rx = used[k].before.rx

\* ------------------------------------------------------------------- C28
\* the calls of intersectPlane for triangle n (0-based) of the clip call
KernelCalls(n) ==
  PlaneCalls(WorldVertex(kernel.mesh, kernel.pose, 3 * n),
             WorldVertex(kernel.mesh, kernel.pose, 3 * n + 1),
             WorldVertex(kernel.mesh, kernel.pose, 3 * n + 2))
KernelFaces == 0..(VertexCount(kernel.mesh) \div 3 - 1)

Between(a, lo, hi) == (lo <= a /\ a <= hi) \/ (hi <= a /\ a <= lo)

\* intersectPlane(p1, p2) is called across the surface: the denominator
\* p2.z - p1.z is not zero, t = -p1.z / (p2.z - p1.z) is in [0, 1], and the
\* point returned has z = 0 and is the point p1 + t (p2 - p1) of the edge
\* (to the nearest grid point)
AcrossSurface(p1, p2) ==
  LET den == p2.z - p1.z
      num == -p1.z
      q == intersectPlane(p1, p2)
  IN  /\ ~p1.nan /\ ~p2.nan
      /\ (p1.z < 0 /\ p2.z >= 0) \/ (p2.z < 0 /\ p1.z >= 0)
      /\ den # 0
      /\ Between(num, 0, den)
      /\ q.z = 0
      /\ ~q.nan
      /\ Between(q.x, p1.x, p2.x)
      /\ Between(q.y, p1.y, p2.y)
      /\ 2 * Abs((q.x - p1.x) * den - num * (p2.x - p1.x)) <= Abs(den)
      /\ 2 * Abs((q.y - p1.y) * den - num * (p2.y - p1.y)) <= Abs(den)

\* C28: every call of intersectPlane made by the clipper has one endpoint with
\* z < 0 and the other with z >= 0, so that its denominator is not zero, t is
\* in [0, 1] and the point returned is on the edge with z = 0; the clipper
\* makes two such calls for a triangle with one or two vertices under water and
\* none otherwise.
C28_PlaneCallsCrossSurface ==
  kernel.fn = "clip" =>
    \A n \in KernelFaces :
      /\ Len(KernelCalls(n)) \in {0, 2}
      /\ \A c \in 1..Len(KernelCalls(n)) :
           AcrossSurface(KernelCalls(n)[c][1], KernelCalls(n)[c][2])

\* a clip call with a rotated mesh in which a triangle with one vertex under
\* water has an edge that ends in the surface (t = 1) and an edge that rises
\* above it
C28_Witness ==
  /\ kernel.fn = "clip"
  /\ ~Unrotated
  /\ \E n \in KernelFaces : \E c \in 1..Len(KernelCalls(n)) :
       /\ Under(KernelCalls(n)[c][1])
       /\ KernelCalls(n)[c][2].z > 0
  /\ \E n \in KernelFaces : \E c \in 1..Len(KernelCalls(n)) :
       /\ Under(KernelCalls(n)[c][1])
       /\ KernelCalls(n)[c][2].z = 0
====
